---------------------------- MODULE Spec2Model ----------------------------
(***************************************************************************)
(* NVM programming protocol of the STUSB4500 driver (src/src/nvm.rs): the  *)
(* unlock / read_sectors / write_sectors / lock register sequences, the    *)
(* request pulse with its busy-poll, and the device they drive.            *)
(*                                                                         *)
(* One action is one bus transaction of the driver (or one call, or one    *)
(* step of the device).  The device is a register file with the five NVM   *)
(* sectors behind it; it completes a pending request on its own.           *)
(***************************************************************************)
EXTENDS Naturals, Sequences, FiniteSets

(***************************************************************************)
(* Bounds of the model.                                                    *)
(***************************************************************************)
\* busy polls (Request still set) recorded per operation
MaxPolls == 1
\* transport failures injected per run
MaxFail == 1
\* calls of the private read_sector / write_sector per run
MaxUnitCalls == 2

(***************************************************************************)
(* Bytes.  Bitwise operations on u8, bit by bit.                           *)
(***************************************************************************)
RECURSIVE BitAndN(_, _, _)
BitAndN(a, b, n) ==
    IF n = 0 THEN 0
    ELSE ((a % 2) * (b % 2)) + 2 * BitAndN(a \div 2, b \div 2, n - 1)

RECURSIVE BitOrN(_, _, _)
BitOrN(a, b, n) ==
    IF n = 0 THEN 0
    ELSE (IF (a % 2) + (b % 2) > 0 THEN 1 ELSE 0)
         + 2 * BitOrN(a \div 2, b \div 2, n - 1)

BitAnd(a, b) == BitAndN(a, b, 8)
BitOr(a, b) == BitOrN(a, b, 8)

(***************************************************************************)
(* Register map, flag bits and opcodes of the crate root (not part of the  *)
(* sources at hand; values of the STUSB4500 register map).                 *)
(***************************************************************************)
\* Register::RWBuffer = 0x53
RWBuffer == 83
\* Register::NvmPassword = 0x95
NvmPassword == 149
\* Register::NvmCtrl0 = 0x96
NvmCtrl0 == 150
\* Register::NvmCtrl1 = 0x97
NvmCtrl1 == 151
\* a status register read outside an NVM session (0x06)
StatusReg == 6

\* NvmCtrl0::Power = 0x80
Power == 128
\* NvmCtrl0::Enable = 0x40
Enable == 64
\* NvmCtrl0::Request = 0x10
Request == 16
\* sector-select field of NvmCtrl0, bits 2:0
SectorMask == 7

\* NvmCtrl1Opcode
ReadSector == 0
LoadPlr == 1
LoadSer == 2
EraseSectors == 5
WriteSector == 6
\* opcode field of NvmCtrl1, bits 2:0
OpcodeMask == 7
\* NvmCtrl1::EraseSector0 .. EraseSector4 = 0x08 .. 0x80
EraseSector0 == 8
EraseSector1 == 16
EraseSector2 == 32
EraseSector3 == 64
EraseSector4 == 128

EraseFlag(i) ==
    CASE i = 0 -> EraseSector0
      [] i = 1 -> EraseSector1
      [] i = 2 -> EraseSector2
      [] i = 3 -> EraseSector3
      [] i = 4 -> EraseSector4

\* STUSB4500Nvm::DEFAULT_PASSWORD = 0x47
DEFAULT_PASSWORD == 71

\* number of sectors and bytes per sector of [[u8; 8]; 5]
NumSectors == 5
SectorLen == 8
Sectors == 0 .. (NumSectors - 1)

(***************************************************************************)
(* NVM images: functions from the sector index to 8 bytes.                 *)
(***************************************************************************)
DEFAULT_NVM_DATA ==
    [i \in Sectors |->
        CASE i = 0 -> <<0, 0, 176, 171, 0, 69, 0, 0>>
          [] i = 1 -> <<16, 64, 156, 28, 255, 1, 60, 223>>
          [] i = 2 -> <<2, 64, 15, 0, 50, 0, 252, 241>>
          [] i = 3 -> <<0, 25, 86, 175, 245, 53, 95, 0>>
          [] i = 4 -> <<0, 75, 144, 33, 67, 0, 64, 251>>]

\* a second image, every sector different from the default and from the others
OtherImage ==
    [i \in Sectors |-> <<i + 1, 255, 170, 85, i + 1, 0, 1, 254 - i>>]

Images == {DEFAULT_NVM_DATA, OtherImage}

\* let mut buf = [0x00; 8]  /  [[0x00; 8]; 5]
ZeroSector == <<0, 0, 0, 0, 0, 0, 0, 0>>
ZeroImage == [i \in Sectors |-> ZeroSector]

\* sector values a single write_sector is tried with
SectorValues == {DEFAULT_NVM_DATA[1], OtherImage[3]}

(***************************************************************************)
(* The device: the registers the driver touches, the program load         *)
(* register, the sector erase register and the five sectors.  A request    *)
(* is pending while the Request bit of control register 0 is set; when the *)
(* device completes it, it executes the opcode of control register 1 on    *)
(* the sector selected in control register 0 and clears the bit.           *)
(***************************************************************************)
VARIABLES dev, stuck

DevInit(img) ==
    [password |-> 0, ctrl0 |-> 0, ctrl1 |-> 0, ptr |-> 0,
     rwbuf |-> ZeroSector, plr |-> ZeroSector, ser |-> {}, nvm |-> img]

\* write of one byte to a register
DevWriteReg(d, reg, val) ==
    CASE reg = NvmPassword -> [d EXCEPT !.password = val, !.ptr = reg]
      [] reg = NvmCtrl0 -> [d EXCEPT !.ctrl0 = val, !.ptr = reg]
      [] reg = NvmCtrl1 -> [d EXCEPT !.ctrl1 = val, !.ptr = reg]
      [] OTHER -> [d EXCEPT !.ptr = reg]

\* read of one byte from a register
DevReadReg(d, reg) ==
    CASE reg = NvmPassword -> d.password
      [] reg = NvmCtrl0 -> d.ctrl0
      [] reg = NvmCtrl1 -> d.ctrl1
      [] OTHER -> 0

\* raw write of a register address followed by data bytes
DevWriteBurst(d, bytes) ==
    IF Len(bytes) = 1 THEN [d EXCEPT !.ptr = bytes[1]]
    ELSE IF bytes[1] = RWBuffer /\ Len(bytes) = SectorLen + 1
         THEN [d EXCEPT !.rwbuf = Tail(bytes), !.ptr = RWBuffer]
         ELSE [d EXCEPT !.ptr = bytes[1]]

\* raw read of 8 bytes from the address last written
DevReadBurst(d) == IF d.ptr = RWBuffer THEN d.rwbuf ELSE ZeroSector

DevPending(d) == BitAnd(d.ctrl0, Request) = Request

\* the sectors flagged in a LoadSer value of control register 1
ErasedBy(c1) == {i \in Sectors : BitAnd(c1, EraseFlag(i)) = EraseFlag(i)}

\* the pending request, executed
DevExec(d) ==
    LET op == BitAnd(d.ctrl1, OpcodeMask)
        s == BitAnd(d.ctrl0, SectorMask)
        done == [d EXCEPT !.ctrl0 = d.ctrl0 - Request]
    IN  CASE op = ReadSector /\ s \in Sectors -> [done EXCEPT !.rwbuf = d.nvm[s]]
          [] op = LoadPlr -> [done EXCEPT !.plr = d.rwbuf]
          [] op = LoadSer -> [done EXCEPT !.ser = ErasedBy(d.ctrl1)]
          [] op = EraseSectors ->
                [done EXCEPT !.nvm = [i \in Sectors |->
                                        IF i \in d.ser THEN ZeroSector ELSE d.nvm[i]]]
          [] op = WriteSector /\ s \in Sectors -> [done EXCEPT !.nvm[s] = d.plr]
          [] OTHER -> done

(***************************************************************************)
(* The driver.                                                             *)
(*   sess     whether an STUSB4500Nvm value (the unlock session) exists    *)
(*   top      the function the caller called last                          *)
(*   pc       the bus transaction the driver issues next ("idle": none)    *)
(*   cont     where issue_request_with_sector returns to                   *)
(*   sector   the argument of issue_request_with_sector                    *)
(*   idx      the loop index of read_sectors / write_sectors, or the       *)
(*            sector argument of a single read_sector / write_sector       *)
(*   image    the argument of write_sectors                                *)
(*   data     the argument of write_sector                                 *)
(*   buf      buf of read_sectors, the image it returns                    *)
(*   rbuf     buf of read_sector, the sector it returns                    *)
(*   result   "ok" or "err" once the call has returned ("none" before)     *)
(* and the history kept for the properties:                                *)
(*   trace    the bus transactions of the current call, in order           *)
(*   polls    the busy polls of the current call                           *)
(*   nfail    the transport failures so far                                *)
(*   nvm0     the contents of the sectors when the call was made           *)
(*   written  the image of the last write_sectors that returned Ok         *)
(*   scen     how far the caller is in write_sectors, lock, unlock         *)
(*   units    the calls of the private read_sector / write_sector so far   *)
(*   lastWrite  <<i, d>> when the call before this one was write_sector(i, *)
(*            d) and returned Ok, <<>> otherwise                           *)
(***************************************************************************)
VARIABLES sess, top, pc, cont, sector, idx, image, data, buf, rbuf, result,
          trace, polls, nfail, nvm0, written, scen, units, lastWrite

(***************************************************************************)
(* The power data objects of pdo.rs, kept apart from the NVM session.      *)
(*   pdo    the Pdo at hand: its variant and its 32-bit word               *)
(*   pprev  the Pdo before the last mutator call                           *)
(*   pop    the last operation on the Pdo, "none" before any               *)
(*   parg   the argument of the last mutator call                          *)
(*   pres   "Some" or "None", what from_bits returned, while it is the     *)
(*          last call                                                      *)
(*   pw     the word last given to from_bits                               *)
(*   pvc    <<voltage, current>> last given to new_fixed                   *)
(*   fs     the last FastSwapSupport conversion: the word converted, the   *)
(*          value it gave, and that value converted back                   *)
(***************************************************************************)
VARIABLES pdo, pprev, pop, parg, pres, pw, pvc, fs

pdoVars == <<pdo, pprev, pop, parg, pres, pw, pvc, fs>>

pdoOnly == <<pdo, pprev, pop, parg, pres, pw, pvc>>

nvmVars == <<dev, stuck, sess, top, pc, cont, sector, idx, image, data, buf, rbuf,
             result, trace, polls, nfail, nvm0, written, scen, units, lastWrite>>

vars == <<dev, stuck, sess, top, pc, cont, sector, idx, image, data, buf, rbuf,
          result, trace, polls, nfail, nvm0, written, scen, units, lastWrite,
          pdoVars>>

\* one bus transaction: a register write or read, a raw write, a raw read
Tx(kind, reg, val, bytes, ok) ==
    [kind |-> kind, reg |-> reg, val |-> val, bytes |-> bytes, ok |-> ok]

\* whether the transport may fail the next transaction
Outcomes == IF nfail < MaxFail THEN BOOLEAN ELSE {TRUE}

(***************************************************************************)
(* Values the driver writes.                                               *)
(***************************************************************************)
\* unlock: the three values, in the order written
UnlockPassword == DEFAULT_PASSWORD
UnlockClear == 0
UnlockPowerOnly == Power
UnlockPowerEnable == BitOr(Power, Enable)

\* lock: the three values, in the order written
LockCtrl0 == Enable
LockCtrl1 == 0
LockPasswordKept == DEFAULT_PASSWORD
LockPassword == 0

\* sector | (Power | Enable | Request).bits()
RequestValueNoEnable(s) == BitOr(s, BitOr(Power, Request))
RequestValue(s) == BitOr(s, BitOr(BitOr(Power, Enable), Request))

\* NvmCtrl0::from_bits_truncate(v).contains(NvmCtrl0::Request)
StillBusyNever(v) == FALSE
StillBusyBounded(v) == BitAnd(v, Request) = Request /\ polls < MaxPolls
StillBusy(v) == BitAnd(v, Request) = Request

\* LoadSer as u8 | (EraseSector0 | ... | EraseSector4).bits()
EraseLoadValueFourFlags ==
    BitOr(LoadSer,
          BitOr(EraseSector0, BitOr(EraseSector1, BitOr(EraseSector2, EraseSector3))))
EraseLoadValue ==
    BitOr(LoadSer,
          BitOr(EraseSector0,
                BitOr(EraseSector1,
                      BitOr(EraseSector2, BitOr(EraseSector3, EraseSector4)))))

\* buf[0] = RWBuffer; buf[1..].copy_from_slice(data)
BurstOfNoAddress(d) == d
BurstOf(d) == <<RWBuffer>> \o d

\* *sector = read_sector(i)?  for the i-th element of buf
StoreAtZero(b, i, s) == [b EXCEPT ![0] = s]
StoreAt(b, i, s) == [b EXCEPT ![i] = s]

\* the sector index write_sector passes to its second request pulse
ProgramPulseSectorZero(i) == 0
ProgramPulseSector(i) == i

\* the sector index read_sector passes to its request pulse
ReadPulseSectorZero(i) == 0
ReadPulseSector(i) == i

\* where write_sectors starts: erase_sectors()? comes first
WriteSectorsEntryNoErase == "ws_buf"
WriteSectorsEntry == "er_ser"

\* the `?` after every transaction: the error is returned at once
AfterErrorRetry(label) == label
AfterErrorRelock(label) ==
    IF label \in {"l_en", "l_c1", "l_pw", "u_pw", "u_clr", "u_pe", "st_rd"}
    THEN "idle"
    ELSE "l_en"
AfterError(label) == "idle"

\* unlock takes &mut STUSB4500 and the session keeps it: while the session
\* exists the handle cannot be used for anything else
HandleAlwaysFree == TRUE
HandleFree == sess = "none"

(***************************************************************************)
(* Control flow shared by the steps.                                       *)
(***************************************************************************)
SessionLabels ==
    {"l_en", "l_c1", "l_pw", "er_ser", "er_op", "ws_buf", "ws_plr", "ws_op",
     "rs_op", "rs_ptr", "rs_rd", "rq_w", "rq_poll"}
Labels == SessionLabels \cup {"u_pw", "u_clr", "u_pe", "st_rd", "idle"}

\* the data write_sector is called with
CurData == IF top = "write_sectors" THEN image[idx] ELSE data

\* the next transaction of the same function
Goto(l) ==
    /\ pc' = l
    /\ UNCHANGED <<sess, cont, sector, idx, buf, rbuf, result, polls, written, scen>>

\* issue_request_with_sector(s), returning to c
Pulse(s, c) ==
    /\ pc' = "rq_w"
    /\ sector' = s
    /\ cont' = c
    /\ UNCHANGED <<sess, idx, buf, rbuf, result, polls, written, scen>>

\* the call returns Ok
ReturnOk ==
    /\ pc' = "idle"
    /\ result' = "ok"
    /\ sess' = CASE top = "unlock" -> "unlocked"
                 [] top = "lock" -> "none"
                 [] OTHER -> sess
    /\ written' = IF top = "write_sectors" THEN image ELSE written
    /\ scen' = CASE top = "write_sectors" -> 1
                 [] top = "lock" /\ scen = 1 -> 2
                 [] top = "unlock" /\ scen = 2 -> 3
                 [] top = "read_sectors" /\ scen = 3 -> 3
                 [] OTHER -> 0
    /\ UNCHANGED <<cont, sector, idx, polls>>

\* the transaction at label failed
Failed(label) ==
    /\ pc' = AfterError(label)
    /\ result' = IF AfterError(label) = "idle" THEN "err" ELSE result
    /\ sess' = IF AfterError(label) = "idle" /\ top = "lock" THEN "none" ELSE sess
    /\ scen' = 0
    /\ UNCHANGED <<cont, sector, idx, buf, rbuf, polls, written>>

\* a failed transaction carries no data back
FailedTx(t) ==
    IF t.kind \in {"read", "raw_read"}
    THEN [t EXCEPT !.ok = FALSE, !.val = 0, !.bytes = <<>>]
    ELSE [t EXCEPT !.ok = FALSE]

\* one transaction: recorded, then either done on the device or failed
Transact(label, t, d2, Then) ==
    /\ pc = label
    /\ \E ok \in Outcomes :
          /\ trace' = Append(trace, IF ok THEN t ELSE FailedTx(t))
          /\ IF ok
             THEN /\ dev' = d2
                  /\ nfail' = nfail
                  /\ Then
             ELSE /\ dev' = dev
                  /\ nfail' = nfail + 1
                  /\ Failed(label)
    /\ UNCHANGED <<stuck, top, image, data, nvm0, units, lastWrite, pdoVars>>

WriteReg(label, reg, val, Then) ==
    Transact(label, Tx("write", reg, val, <<>>, TRUE), DevWriteReg(dev, reg, val), Then)

(***************************************************************************)
(* Calls.  A call is made when no call is running.                         *)
(***************************************************************************)
Begin(f, first, i, img, d) ==
    /\ pc = "idle"
    /\ top' = f
    /\ pc' = first
    /\ idx' = i
    /\ image' = img
    /\ data' = d
    /\ buf' = ZeroImage
    /\ rbuf' = ZeroSector
    /\ cont' = "idle"
    /\ sector' = 0
    /\ result' = "none"
    /\ trace' = <<>>
    /\ polls' = 0
    /\ nvm0' = dev.nvm
    /\ scen' = CASE f = "lock" /\ scen = 1 -> 1
                 [] f = "unlock" /\ scen = 2 -> 2
                 [] f = "read_sectors" /\ scen = 3 -> 3
                 [] OTHER -> 0
    /\ units' = IF f \in {"read_sector", "write_sector"} THEN units + 1 ELSE units
    /\ lastWrite' = IF top = "write_sector" /\ result = "ok"
                    THEN <<idx, data>>
                    ELSE <<>>
    /\ UNCHANGED <<dev, stuck, nfail, written, pdoVars>>

CallUnlock ==
    /\ HandleFree
    /\ Begin("unlock", "u_pw", 0, ZeroImage, ZeroSector)
    /\ UNCHANGED sess

CallLock ==
    /\ sess = "unlocked"
    /\ Begin("lock", "l_en", 0, ZeroImage, ZeroSector)
    /\ UNCHANGED sess

\* let mut buf = [[0x00; 8]; 5]; the loop starts at sector 0
CallReadSectors ==
    /\ sess = "unlocked"
    /\ Begin("read_sectors", "rs_op", 0, ZeroImage, ZeroSector)
    /\ UNCHANGED sess

CallWriteSectors ==
    /\ sess = "unlocked"
    /\ \E img \in Images :
          Begin("write_sectors", WriteSectorsEntry, 0, img, ZeroSector)
    /\ UNCHANGED sess

\* the private read_sector(i), called on its own
CallReadSector ==
    /\ sess = "unlocked"
    /\ units < MaxUnitCalls
    /\ \E i \in Sectors :
          Begin("read_sector", "rs_op", i, ZeroImage, ZeroSector)
    /\ UNCHANGED sess

\* the private write_sector(i, d), called on its own
CallWriteSector ==
    /\ sess = "unlocked"
    /\ units < MaxUnitCalls
    /\ \E i \in Sectors, d \in SectorValues :
          Begin("write_sector", "ws_buf", i, ZeroImage, d)
    /\ UNCHANGED sess

\* any other operation through the handle (a status, PDO or voltage read)
CallStatus ==
    /\ HandleFree
    /\ Begin("status", "st_rd", 0, ZeroImage, ZeroSector)
    /\ UNCHANGED sess

\* the session value goes out of scope without lock
Drop ==
    /\ sess = "unlocked"
    /\ Begin("drop", "idle", 0, ZeroImage, ZeroSector)
    /\ sess' = "none"

(***************************************************************************)
(* unlock                                                                  *)
(***************************************************************************)
UnlockWritePassword ==
    WriteReg("u_pw", NvmPassword, UnlockPassword, Goto("u_clr"))

UnlockClearCtrl0 ==
    WriteReg("u_clr", NvmCtrl0, UnlockClear, Goto("u_pe"))

UnlockPowerEnableCtrl0 ==
    WriteReg("u_pe", NvmCtrl0, UnlockPowerEnable,
             ReturnOk /\ UNCHANGED <<buf, rbuf>>)

(***************************************************************************)
(* lock                                                                    *)
(***************************************************************************)
LockWriteCtrl0 ==
    WriteReg("l_en", NvmCtrl0, LockCtrl0, Goto("l_c1"))

LockWriteCtrl1 ==
    WriteReg("l_c1", NvmCtrl1, LockCtrl1, Goto("l_pw"))

LockWritePassword ==
    WriteReg("l_pw", NvmPassword, LockPassword,
             ReturnOk /\ UNCHANGED <<buf, rbuf>>)

(***************************************************************************)
(* issue_request_with_sector                                               *)
(***************************************************************************)
RequestWrite ==
    WriteReg("rq_w", NvmCtrl0, RequestValue(sector), Goto("rq_poll"))

\* the loop index after sector i
NextIndexSkip(i) == i + 2
NextIndex(i) == i + 1

\* issue_request_with_sector returns Ok to where it was called from
AfterPulse ==
    CASE cont = "er_op" -> Goto("er_op")
      [] cont = "er_ret" -> Goto("ws_buf")
      [] cont = "ws_op" -> Goto("ws_op")
      [] cont = "rs_ptr" -> Goto("rs_ptr")
      [] cont = "ws_ret" ->
            IF top = "write_sectors" /\ NextIndex(idx) \in Sectors
            THEN /\ pc' = "ws_buf"
                 /\ idx' = NextIndex(idx)
                 /\ UNCHANGED <<sess, cont, sector, buf, rbuf, result, polls,
                                written, scen>>
            ELSE ReturnOk /\ UNCHANGED <<buf, rbuf>>

\* one read of control register 0 in the while loop
RequestPoll ==
    /\ pc = "rq_poll"
    /\ LET v == DevReadReg(dev, NvmCtrl0)
       IN  \E ok \in Outcomes :
              IF ~ok
              THEN /\ trace' = Append(trace, FailedTx(Tx("read", NvmCtrl0, v, <<>>, TRUE)))
                   /\ dev' = dev
                   /\ nfail' = nfail + 1
                   /\ Failed("rq_poll")
              ELSE IF StillBusy(v)
              THEN IF polls < MaxPolls
                   THEN /\ trace' = Append(trace, Tx("read", NvmCtrl0, v, <<>>, TRUE))
                        /\ dev' = [dev EXCEPT !.ptr = NvmCtrl0]
                        /\ polls' = polls + 1
                        /\ UNCHANGED <<sess, pc, cont, sector, idx, buf, rbuf,
                                       result, nfail, written, scen>>
                   ELSE \* further busy polls change nothing and are not recorded
                        /\ stuck
                        /\ UNCHANGED <<dev, sess, pc, cont, sector, idx, buf, rbuf,
                                       result, trace, polls, nfail, written, scen>>
              ELSE /\ trace' = Append(trace, Tx("read", NvmCtrl0, v, <<>>, TRUE))
                   /\ dev' = [dev EXCEPT !.ptr = NvmCtrl0]
                   /\ nfail' = nfail
                   /\ AfterPulse
    /\ UNCHANGED <<stuck, top, image, data, nvm0, units, lastWrite, pdoVars>>

(***************************************************************************)
(* erase_sectors                                                           *)
(***************************************************************************)
EraseLoadSer ==
    WriteReg("er_ser", NvmCtrl1, EraseLoadValue, Pulse(0, "er_op"))

EraseOp ==
    WriteReg("er_op", NvmCtrl1, EraseSectors, Pulse(0, "er_ret"))

(***************************************************************************)
(* write_sector                                                            *)
(***************************************************************************)
WriteSectorBuffer ==
    Transact("ws_buf", Tx("raw_write", RWBuffer, 0, BurstOf(CurData), TRUE),
             DevWriteBurst(dev, BurstOf(CurData)), Goto("ws_plr"))

WriteSectorLoadPlr ==
    WriteReg("ws_plr", NvmCtrl1, LoadPlr, Pulse(0, "ws_op"))

WriteSectorOp ==
    WriteReg("ws_op", NvmCtrl1, WriteSector, Pulse(ProgramPulseSector(idx), "ws_ret"))

(***************************************************************************)
(* read_sector                                                             *)
(***************************************************************************)
ReadSectorOp ==
    WriteReg("rs_op", NvmCtrl1, ReadSector, Pulse(ReadPulseSector(idx), "rs_ptr"))

ReadSectorPointer ==
    Transact("rs_ptr", Tx("raw_write", RWBuffer, 0, <<RWBuffer>>, TRUE),
             DevWriteBurst(dev, <<RWBuffer>>), Goto("rs_rd"))

\* read_sector returns the bytes; read_sectors stores them and goes on
AfterRead(bytes) ==
    IF top = "read_sectors"
    THEN /\ buf' = StoreAt(buf, idx, bytes)
         /\ rbuf' = bytes
         /\ IF NextIndex(idx) \in Sectors
            THEN /\ pc' = "rs_op"
                 /\ idx' = NextIndex(idx)
                 /\ UNCHANGED <<sess, cont, sector, result, polls, written, scen>>
            ELSE ReturnOk
    ELSE /\ rbuf' = bytes
         /\ buf' = buf
         /\ ReturnOk

ReadSectorRead ==
    Transact("rs_rd", Tx("raw_read", dev.ptr, 0, DevReadBurst(dev), TRUE),
             dev, AfterRead(DevReadBurst(dev)))

(***************************************************************************)
(* a read through the handle outside a session                             *)
(***************************************************************************)
StatusRead ==
    Transact("st_rd", Tx("read", StatusReg, DevReadReg(dev, StatusReg), <<>>, TRUE),
             [dev EXCEPT !.ptr = StatusReg], ReturnOk /\ UNCHANGED <<buf, rbuf>>)

(***************************************************************************)
(* The device completes the pending request.                               *)
(***************************************************************************)
DevComplete ==
    /\ DevPending(dev)
    /\ ~stuck
    /\ dev' = DevExec(dev)
    /\ UNCHANGED <<stuck, sess, top, pc, cont, sector, idx, image, data, buf, rbuf,
                   result, trace, polls, nfail, nvm0, written, scen, units,
                   lastWrite, pdoVars>>

(***************************************************************************)
(* The power data objects of pdo.rs.  A u32 is kept as its 32 bits, bit 0  *)
(* the least significant, so that no value leaves the range of the         *)
(* integers at hand and every mask and shift of the source is computed on  *)
(* the full width.                                                         *)
(***************************************************************************)
WordBits == 32
BitIdx == 0..(WordBits - 1)

ZeroWord == [i \in BitIdx |-> 0]
AllOnes == [i \in BitIdx |-> 1]

\* `x as u32` of a u16 (and of the small literals of the source)
U16ToWord(n) == [i \in BitIdx |-> IF i < 16 THEN (n \div 2^i) % 2 ELSE 0]

WAnd(a, b) == [i \in BitIdx |-> a[i] * b[i]]
WOr(a, b) == [i \in BitIdx |-> IF a[i] + b[i] > 0 THEN 1 ELSE 0]
WNot(a) == [i \in BitIdx |-> 1 - a[i]]
Shl(a, n) == [i \in BitIdx |-> IF i >= n THEN a[i - n] ELSE 0]
Shr(a, n) == [i \in BitIdx |-> IF i + n < WordBits THEN a[i + n] ELSE 0]

\* the setter the bitfield! block generates for a field msb:lsb of a u32:
\* the value is shifted into place and cut to the width of the field
SetBitRange(w, msb, lsb, value) ==
    LET mask == Shl(Shr(Shl(AllOnes, WordBits - msb - 1),
                        WordBits - msb - 1 + lsb), lsb)
    IN  WOr(WAnd(w, WNot(mask)), WAnd(Shl(value, lsb), mask))

\* the setter of a one-bit field
SetBit(w, bit, b) == SetBitRange(w, bit, bit, U16ToWord(IF b THEN 1 ELSE 0))

\* ---- FastSwapSupport ---------------------------------------------------
FastSwapValues == {"NotSupported", "DefaultUsb", "_1A5_5V", "_3A0_5V"}

FastSwapInto(e) ==
    CASE e = "NotSupported" -> 0
      [] e = "DefaultUsb" -> 1
      [] e = "_1A5_5V" -> 2
      [] e = "_3A0_5V" -> 3

FastSwapFromUnmasked(value) ==
    CASE value = U16ToWord(0) -> "NotSupported"
      [] value = U16ToWord(1) -> "DefaultUsb"
      [] value = U16ToWord(2) -> "_1A5_5V"
      [] OTHER -> "_3A0_5V"

FastSwapFrom(value) ==
    LET low == WAnd(value, U16ToWord(3))
    IN  CASE low = U16ToWord(0) -> "NotSupported"
          [] low = U16ToWord(1) -> "DefaultUsb"
          [] low = U16ToWord(2) -> "_1A5_5V"
          [] OTHER -> "_3A0_5V"

\* ---- FixedPdo and the tags of the four kinds ---------------------------
PDO_SNK_FIXED == Shl(U16ToWord(0), 30)
PDO_SNK_VARIABLE == Shl(U16ToWord(1), 30)
PDO_SNK_BATTERY == Shl(U16ToWord(2), 30)
PDO_SNK_AUGMENTED == Shl(U16ToWord(3), 30)

\* 0xC000_0000
TagMask == [i \in BitIdx |-> IF i >= 30 THEN 1 ELSE 0]

SetDualRolePower(w, b) == SetBit(w, 29, b)
SetHigherCapability(w, b) == SetBit(w, 28, b)
SetUnconstrainedPower(w, b) == SetBit(w, 27, b)
SetUsbCommunicationsCapable(w, b) == SetBit(w, 26, b)
SetDualRoleDataWrongBit(w, b) == SetBit(w, 26, b)
SetDualRoleData(w, b) == SetBit(w, 25, b)
SetVoltageUnmasked(w, x) == WOr(w, Shl(x, 10))
SetVoltage(w, x) == SetBitRange(w, 19, 10, x)
SetCurrent(w, x) == SetBitRange(w, 9, 0, x)

SetFastRoleSwap(w, e) == SetBitRange(w, 24, 23, U16ToWord(FastSwapInto(e)))

FixedDefault == PDO_SNK_FIXED

FixedNew(voltage, current) ==
    SetCurrent(SetVoltage(FixedDefault, U16ToWord(voltage)), U16ToWord(current))

\* ---- VariablePdo, BatteryPdo, AugmentedPdo -----------------------------
VariableSetMaxVoltage(w, x) == SetBitRange(w, 29, 20, x)
VariableSetMinVoltage(w, x) == SetBitRange(w, 19, 10, x)
VariableSetCurrent(w, x) == SetBitRange(w, 9, 0, x)

BatterySetMaxVoltage(w, x) == SetBitRange(w, 29, 20, x)
BatterySetMinVoltage(w, x) == SetBitRange(w, 19, 10, x)
BatterySetPower(w, x) == SetBitRange(w, 9, 0, x)

AugmentedSetMaxVoltage(w, x) == SetBitRange(w, 25, 18, x)
AugmentedSetMinVoltage(w, x) == SetBitRange(w, 16, 8, x)
AugmentedSetMaxCurrent(w, x) == SetBitRange(w, 6, 0, x)

\* ---- Pdo ---------------------------------------------------------------
\* a Pdo is its variant and the word it wraps; an Option is <<>> or <<p>>
Variants == {"Fixed", "Variable", "Battery", "Augmented"}
MkPdo(v, w) == [variant |-> v, bits |-> w]

NewFixed(voltage, current) == MkPdo("Fixed", FixedNew(voltage, current))

DualRolePower(p, b) ==
    IF p.variant = "Fixed" THEN MkPdo("Fixed", SetDualRolePower(p.bits, b)) ELSE p

DualRoleData(p, b) ==
    IF p.variant = "Fixed" THEN MkPdo("Fixed", SetDualRoleData(p.bits, b)) ELSE p

UsbCommunicationsCapable(p, b) ==
    IF p.variant = "Fixed"
    THEN MkPdo("Fixed", SetUsbCommunicationsCapable(p.bits, b)) ELSE p

HigherCapabilityAnyVariant(p, b) == MkPdo(p.variant, SetHigherCapability(p.bits, b))

HigherCapability(p, b) ==
    IF p.variant = "Fixed" THEN MkPdo("Fixed", SetHigherCapability(p.bits, b)) ELSE p

UnconstrainedPower(p, b) ==
    IF p.variant = "Fixed"
    THEN MkPdo("Fixed", SetUnconstrainedPower(p.bits, b)) ELSE p

Bits(p) == p.bits

FromBitsNoAugmented(bits) ==
    LET tag == WAnd(bits, TagMask)
    IN  CASE tag = PDO_SNK_FIXED -> <<MkPdo("Fixed", bits)>>
          [] tag = PDO_SNK_VARIABLE -> <<MkPdo("Variable", bits)>>
          [] tag = PDO_SNK_BATTERY -> <<MkPdo("Battery", bits)>>
          [] OTHER -> <<>>

FromBits(bits) ==
    LET tag == WAnd(bits, TagMask)
    IN  CASE tag = PDO_SNK_FIXED -> <<MkPdo("Fixed", bits)>>
          [] tag = PDO_SNK_VARIABLE -> <<MkPdo("Variable", bits)>>
          [] tag = PDO_SNK_BATTERY -> <<MkPdo("Battery", bits)>>
          [] tag = PDO_SNK_AUGMENTED -> <<MkPdo("Augmented", bits)>>
          [] OTHER -> <<>>

\* ---- the inputs --------------------------------------------------------
\* words of every tag over payloads that are empty, full and alternating
MkWord(tag, pat) ==
    [i \in BitIdx |-> IF i >= 30 THEN (tag \div 2^(i - 30)) % 2
                      ELSE CASE pat = "zeros" -> 0
                             [] pat = "ones" -> 1
                             [] pat = "even" -> 1 - (i % 2)]
PdoWords == {MkWord(t, pat) : t \in 0..3, pat \in {"zeros", "ones", "even"}}

\* voltages and currents at, below and above the ten bits of their fields
U16Values == {0, 1023, 1024, 65535}

\* values given to the setters of the fields: none and every bit set
SetterValues == {ZeroWord, AllOnes}

\* words for FastSwapSupport::from: the four ordinals, values above them
\* and words with high bits set
FsWords == {U16ToWord(n) : n \in 0..7} \cup {AllOnes, MkWord(2, "even"), MkWord(1, "ones")}

Mutators == {"dual_role_power", "dual_role_data", "usb_communications_capable",
             "higher_capability", "unconstrained_power"}

FsInit == [op |-> "none", x |-> ZeroWord, e |-> "NotSupported", n |-> 0]

PdoInit ==
    /\ pdo = MkPdo("Fixed", FixedDefault)
    /\ pprev = pdo
    /\ pop = "none"
    /\ parg = FALSE
    /\ pres = "none"
    /\ pw = ZeroWord
    /\ pvc = <<0, 0>>
    /\ fs = FsInit

\* one value is at hand at a time: a Pdo or a FastSwapSupport conversion is
\* made when nothing is at hand, and Forget lets go of what is
NothingAtHand == pop = "none" /\ fs.op = "none"

Made(p, op) ==
    /\ NothingAtHand
    /\ pdo' = p
    /\ pprev' = p
    /\ pop' = op
    /\ parg' = FALSE
    /\ UNCHANGED <<fs, nvmVars>>

PdoFromBits ==
    \E w \in PdoWords :
        LET r == FromBits(w)
        IN  /\ Made(IF r = <<>> THEN MkPdo("Fixed", FixedDefault) ELSE r[1],
                    "from_bits")
            /\ pres' = IF r = <<>> THEN "None" ELSE "Some"
            /\ pw' = w
            /\ pvc' = <<0, 0>>

PdoNewFixed ==
    \E v \in U16Values, c \in U16Values :
        /\ Made(NewFixed(v, c), "new_fixed")
        /\ pres' = "none"
        /\ pw' = ZeroWord
        /\ pvc' = <<v, c>>

\* what the constructor was given is kept until the next call on the Pdo
Mutate(op, p) ==
    /\ pop # "none"
    /\ pres # "None"
    /\ pdo' = p
    /\ pprev' = pdo
    /\ pop' = op
    /\ pres' = "none"
    /\ pw' = ZeroWord
    /\ pvc' = <<0, 0>>
    /\ UNCHANGED <<fs, nvmVars>>

PdoDualRolePower ==
    \E b \in BOOLEAN : Mutate("dual_role_power", DualRolePower(pdo, b)) /\ parg' = b

PdoDualRoleData ==
    \E b \in BOOLEAN : Mutate("dual_role_data", DualRoleData(pdo, b)) /\ parg' = b

PdoUsbCommunicationsCapable ==
    \E b \in BOOLEAN :
        Mutate("usb_communications_capable", UsbCommunicationsCapable(pdo, b))
        /\ parg' = b

PdoHigherCapability ==
    \E b \in BOOLEAN : Mutate("higher_capability", HigherCapability(pdo, b)) /\ parg' = b

PdoUnconstrainedPower ==
    \E b \in BOOLEAN :
        Mutate("unconstrained_power", UnconstrainedPower(pdo, b)) /\ parg' = b

\* the word inside the Pdo is reached by matching on the variant, whose
\* field is public, and changed by a setter of that kind called on it
SetDirect(w) ==
    /\ pop # "none"
    /\ pres # "None"
    /\ pdo' = MkPdo(pdo.variant, w)
    /\ pprev' = pdo'
    /\ pop' = "setter"
    /\ parg' = FALSE
    /\ pres' = "none"
    /\ pw' = ZeroWord
    /\ pvc' = <<0, 0>>
    /\ UNCHANGED <<fs, nvmVars>>

PdoSetVoltage ==
    /\ pdo.variant = "Fixed"
    /\ \E x \in SetterValues : SetDirect(SetVoltage(pdo.bits, x))

PdoSetCurrent ==
    /\ pdo.variant = "Fixed"
    /\ \E x \in SetterValues : SetDirect(SetCurrent(pdo.bits, x))

PdoSetFastRoleSwap ==
    /\ pdo.variant = "Fixed"
    /\ \E e \in FastSwapValues : SetDirect(SetFastRoleSwap(pdo.bits, e))

PdoSetDualRolePower ==
    /\ pdo.variant = "Fixed"
    /\ \E b \in BOOLEAN : SetDirect(SetDualRolePower(pdo.bits, b))

PdoSetHigherCapability ==
    /\ pdo.variant = "Fixed"
    /\ \E b \in BOOLEAN : SetDirect(SetHigherCapability(pdo.bits, b))

PdoSetUnconstrainedPower ==
    /\ pdo.variant = "Fixed"
    /\ \E b \in BOOLEAN : SetDirect(SetUnconstrainedPower(pdo.bits, b))

PdoSetUsbCommunicationsCapable ==
    /\ pdo.variant = "Fixed"
    /\ \E b \in BOOLEAN : SetDirect(SetUsbCommunicationsCapable(pdo.bits, b))

PdoSetDualRoleData ==
    /\ pdo.variant = "Fixed"
    /\ \E b \in BOOLEAN : SetDirect(SetDualRoleData(pdo.bits, b))

PdoVariableSetMaxVoltage ==
    /\ pdo.variant = "Variable"
    /\ \E x \in SetterValues : SetDirect(VariableSetMaxVoltage(pdo.bits, x))

PdoVariableSetMinVoltage ==
    /\ pdo.variant = "Variable"
    /\ \E x \in SetterValues : SetDirect(VariableSetMinVoltage(pdo.bits, x))

PdoVariableSetCurrent ==
    /\ pdo.variant = "Variable"
    /\ \E x \in SetterValues : SetDirect(VariableSetCurrent(pdo.bits, x))

PdoBatterySetMaxVoltage ==
    /\ pdo.variant = "Battery"
    /\ \E x \in SetterValues : SetDirect(BatterySetMaxVoltage(pdo.bits, x))

PdoBatterySetMinVoltage ==
    /\ pdo.variant = "Battery"
    /\ \E x \in SetterValues : SetDirect(BatterySetMinVoltage(pdo.bits, x))

PdoBatterySetPower ==
    /\ pdo.variant = "Battery"
    /\ \E x \in SetterValues : SetDirect(BatterySetPower(pdo.bits, x))

PdoAugmentedSetMaxVoltage ==
    /\ pdo.variant = "Augmented"
    /\ \E x \in SetterValues : SetDirect(AugmentedSetMaxVoltage(pdo.bits, x))

PdoAugmentedSetMinVoltage ==
    /\ pdo.variant = "Augmented"
    /\ \E x \in SetterValues : SetDirect(AugmentedSetMinVoltage(pdo.bits, x))

PdoAugmentedSetMaxCurrent ==
    /\ pdo.variant = "Augmented"
    /\ \E x \in SetterValues : SetDirect(AugmentedSetMaxCurrent(pdo.bits, x))

\* a Pdo made from the Default of its kind: Pdo::Variable(Default::default())
DefaultOf(kind) ==
    CASE kind = "Fixed" -> FixedDefault
      [] kind = "Variable" -> PDO_SNK_VARIABLE
      [] kind = "Battery" -> PDO_SNK_BATTERY
      [] kind = "Augmented" -> PDO_SNK_AUGMENTED

PdoWrapDefault ==
    \E kind \in Variants :
        /\ Made(MkPdo(kind, DefaultOf(kind)), "default")
        /\ pres' = "none"
        /\ pw' = ZeroWord
        /\ pvc' = <<0, 0>>

FastSwapFromU32 ==
    /\ NothingAtHand
    /\ \E x \in FsWords :
           fs' = [op |-> "from", x |-> x, e |-> FastSwapFrom(x), n |-> 0]
    /\ UNCHANGED <<pdoOnly, nvmVars>>

FastSwapIntoU32 ==
    /\ NothingAtHand
    /\ \E e \in FastSwapValues :
           fs' = [op |-> "into", x |-> ZeroWord, e |-> e, n |-> FastSwapInto(e)]
    /\ UNCHANGED <<pdoOnly, nvmVars>>

Forget ==
    /\ ~NothingAtHand
    /\ pdo' = MkPdo("Fixed", FixedDefault)
    /\ pprev' = pdo'
    /\ pop' = "none"
    /\ parg' = FALSE
    /\ pres' = "none"
    /\ pw' = ZeroWord
    /\ pvc' = <<0, 0>>
    /\ fs' = FsInit
    /\ UNCHANGED nvmVars

(***************************************************************************)
(* Specifications.                                                         *)
(***************************************************************************)
Init ==
    /\ \E img \in {DEFAULT_NVM_DATA, ZeroImage} : dev = DevInit(img)
    /\ stuck \in BOOLEAN
    /\ sess = "none"
    /\ top = "none"
    /\ pc = "idle"
    /\ cont = "idle"
    /\ sector = 0
    /\ idx = 0
    /\ image = ZeroImage
    /\ data = ZeroSector
    /\ buf = ZeroImage
    /\ rbuf = ZeroSector
    /\ result = "none"
    /\ trace = <<>>
    /\ polls = 0
    /\ nfail = 0
    /\ nvm0 = dev.nvm
    /\ written = ZeroImage
    /\ scen = 0
    /\ units = 0
    /\ lastWrite = <<>>
    /\ PdoInit

Next ==
    \/ CallUnlock
    \/ CallLock
    \/ CallReadSectors
    \/ CallWriteSectors
    \/ CallStatus
    \/ Drop
    \/ UnlockWritePassword
    \/ UnlockClearCtrl0
    \/ UnlockPowerEnableCtrl0
    \/ LockWriteCtrl0
    \/ LockWriteCtrl1
    \/ LockWritePassword
    \/ RequestWrite
    \/ RequestPoll
    \/ EraseLoadSer
    \/ EraseOp
    \/ WriteSectorBuffer
    \/ WriteSectorLoadPlr
    \/ WriteSectorOp
    \/ ReadSectorOp
    \/ ReadSectorPointer
    \/ ReadSectorRead
    \/ StatusRead
    \/ DevComplete

Spec == Init /\ [][Next]_vars

\* a session in which the private read_sector and write_sector are called
\* one at a time, as a test inside the module can
NextUnit ==
    \/ CallUnlock
    \/ CallLock
    \/ CallReadSector
    \/ CallWriteSector
    \/ UnlockWritePassword
    \/ UnlockClearCtrl0
    \/ UnlockPowerEnableCtrl0
    \/ LockWriteCtrl0
    \/ LockWriteCtrl1
    \/ LockWritePassword
    \/ RequestWrite
    \/ RequestPoll
    \/ WriteSectorBuffer
    \/ WriteSectorLoadPlr
    \/ WriteSectorOp
    \/ ReadSectorOp
    \/ ReadSectorPointer
    \/ ReadSectorRead
    \/ DevComplete

SpecUnit == Init /\ [][NextUnit]_vars

\* a transport that does not fail (it has no failure left to give) and a
\* device that completes every request: the driver takes its next step
\* whenever it has one, and the device clears Request once it is set
InitLive ==
    /\ \E img \in {DEFAULT_NVM_DATA, ZeroImage} : dev = DevInit(img)
    /\ stuck = FALSE
    /\ sess = "none"
    /\ top = "none"
    /\ pc = "idle"
    /\ cont = "idle"
    /\ sector = 0
    /\ idx = 0
    /\ image = ZeroImage
    /\ data = ZeroSector
    /\ buf = ZeroImage
    /\ rbuf = ZeroSector
    /\ result = "none"
    /\ trace = <<>>
    /\ polls = 0
    /\ nfail = MaxFail
    /\ nvm0 = dev.nvm
    /\ written = ZeroImage
    /\ scen = 0
    /\ units = 0
    /\ lastWrite = <<>>
    /\ PdoInit

DriverStep ==
    \/ UnlockWritePassword
    \/ UnlockClearCtrl0
    \/ UnlockPowerEnableCtrl0
    \/ LockWriteCtrl0
    \/ LockWriteCtrl1
    \/ LockWritePassword
    \/ RequestWrite
    \/ RequestPoll
    \/ EraseLoadSer
    \/ EraseOp
    \/ WriteSectorBuffer
    \/ WriteSectorLoadPlr
    \/ WriteSectorOp
    \/ ReadSectorOp
    \/ ReadSectorPointer
    \/ ReadSectorRead

NextLive ==
    \/ CallUnlock
    \/ CallLock
    \/ CallReadSectors
    \/ CallWriteSectors
    \/ UnlockWritePassword
    \/ UnlockClearCtrl0
    \/ UnlockPowerEnableCtrl0
    \/ LockWriteCtrl0
    \/ LockWriteCtrl1
    \/ LockWritePassword
    \/ RequestWrite
    \/ RequestPoll
    \/ EraseLoadSer
    \/ EraseOp
    \/ WriteSectorBuffer
    \/ WriteSectorLoadPlr
    \/ WriteSectorOp
    \/ ReadSectorOp
    \/ ReadSectorPointer
    \/ ReadSectorRead
    \/ DevComplete

SpecLive ==
    InitLive /\ [][NextLive]_vars /\ WF_vars(DriverStep) /\ WF_vars(DevComplete)

\* the power data objects: made from a word, from a voltage and a current or
\* from a Default, changed by the five mutators and by the setters of the
\* four kinds; and the FastSwapSupport conversions
NextPdo ==
    \/ PdoFromBits
    \/ PdoNewFixed
    \/ PdoDualRolePower
    \/ PdoDualRoleData
    \/ PdoUsbCommunicationsCapable
    \/ PdoHigherCapability
    \/ PdoUnconstrainedPower
    \/ PdoWrapDefault
    \/ PdoSetVoltage
    \/ PdoSetCurrent
    \/ PdoSetFastRoleSwap
    \/ PdoSetDualRolePower
    \/ PdoSetHigherCapability
    \/ PdoSetUnconstrainedPower
    \/ PdoSetUsbCommunicationsCapable
    \/ PdoSetDualRoleData
    \/ PdoVariableSetMaxVoltage
    \/ PdoVariableSetMinVoltage
    \/ PdoVariableSetCurrent
    \/ PdoBatterySetMaxVoltage
    \/ PdoBatterySetMinVoltage
    \/ PdoBatterySetPower
    \/ PdoAugmentedSetMaxVoltage
    \/ PdoAugmentedSetMinVoltage
    \/ PdoAugmentedSetMaxCurrent
    \/ FastSwapFromU32
    \/ FastSwapIntoU32
    \/ Forget

\* the session plays no part here: it stays as constructed over one device
InitPdo == Init /\ ~stuck /\ dev = DevInit(DEFAULT_NVM_DATA)

SpecPdo == InitPdo /\ [][NextPdo]_vars

TypeOK ==
    /\ pc \in Labels
    /\ sess \in {"none", "unlocked"}
    /\ result \in {"none", "ok", "err"}
    /\ idx \in Sectors
    /\ polls \in 0 .. MaxPolls
    /\ nfail \in 0 .. MaxFail

(***************************************************************************)
(* Reading the trace.                                                      *)
(***************************************************************************)
TracePos == 1 .. Len(trace)

\* a successful write of v to register r
IsWrite(t, r, v) == t.kind = "write" /\ t.reg = r /\ t.val = v /\ t.ok

\* bit 4 of a byte, the Request bit of control register 0
RequestBit(v) == (v \div Request) % 2

\* a successful write to control register 0 with the Request bit set
IsPulse(t) ==
    t.kind = "write" /\ t.reg = NvmCtrl0 /\ t.ok /\ RequestBit(t.val) = 1

\* a successful read of control register 0
IsPoll(t) == t.kind = "read" /\ t.reg = NvmCtrl0 /\ t.ok

\* a successful read of control register 0 that shows the Request bit clear
IsClearPoll(t) == IsPoll(t) /\ RequestBit(t.val) = 0

\* a raw write of the buffer address followed by data
IsDataWrite(t) == t.kind = "raw_write" /\ Len(t.bytes) > 1

\* the first position at or after k that is not a successful poll
RECURSIVE SkipPolls(_)
SkipPolls(k) ==
    IF k \in TracePos /\ IsPoll(trace[k]) THEN SkipPolls(k + 1) ELSE k

\* the pulse at position k was polled to completion just before position n
PulseDoneAt(k, n) ==
    /\ k \in TracePos
    /\ IsPulse(trace[k])
    /\ n = SkipPolls(k + 1)
    /\ n > k + 1
    /\ IsClearPoll(trace[n - 1])

\* the value of the last successful write to control register 1 before k
RECURSIVE Ctrl1Before(_)
Ctrl1Before(k) ==
    IF k <= 1 THEN 256
    ELSE IF trace[k - 1].kind = "write" /\ trace[k - 1].reg = NvmCtrl1 /\ trace[k - 1].ok
         THEN trace[k - 1].val
         ELSE Ctrl1Before(k - 1)

\* the data of the last successful data write before k
RECURSIVE DataBefore(_)
DataBefore(k) ==
    IF k <= 1 THEN <<>>
    ELSE IF IsDataWrite(trace[k - 1]) /\ trace[k - 1].ok
         THEN Tail(trace[k - 1].bytes)
         ELSE DataBefore(k - 1)

\* the positions of the pulses that program a sector, and of the data writes
ProgramPulses == {k \in TracePos : IsPulse(trace[k]) /\ Ctrl1Before(k) = WriteSector}
DataWrites == {k \in TracePos : IsDataWrite(trace[k])}

\* where the erase sequence at the head of the trace would be complete
EraseEnd == SkipPolls(SkipPolls(3) + 2)

\* the trace starts with the whole erase sequence: LoadSer with all five
\* flags, pulse, done, EraseSectors, pulse, done (at EraseEnd)
EraseDone ==
    /\ Len(trace) >= 2
    /\ IsWrite(trace[1], NvmCtrl1,
               LoadSer + EraseSector0 + EraseSector1 + EraseSector2
                       + EraseSector3 + EraseSector4)
    /\ LET c == SkipPolls(3)
       IN  /\ PulseDoneAt(2, c)
           /\ c \in TracePos
           /\ IsWrite(trace[c], NvmCtrl1, EraseSectors)
           /\ PulseDoneAt(c + 1, EraseEnd)

(***************************************************************************)
(* C1: in every execution of write_sectors(image) the whole erase sequence *)
(* (LoadSer with all flags, pulse, EraseSectors, pulse, both polled to     *)
(* completion) precedes the first write of data to the buffer register,    *)
(* and the sectors are programmed in ascending order 0,1,2,3,4, sector i   *)
(* with image[i]: the k-th programming pulse selects sector k-1 and loads  *)
(* image[k-1], none comes before the erase, none twice.                    *)
(***************************************************************************)
C1_EraseThenAscending ==
    top = "write_sectors" =>
        LET pp == ProgramPulses
            dw == DataWrites
            end == EraseEnd
        IN  /\ (dw \cup pp # {} => EraseDone)
            /\ \A k \in dw \cup pp : k >= end
            /\ \A k \in pp :
                  LET ord == Cardinality({j \in pp : j < k})
                  IN  /\ ord \in Sectors
                      /\ trace[k].val % (SectorMask + 1) = ord
                      /\ DataBefore(k) = image[ord]
            /\ Cardinality(pp) <= NumSectors
            /\ (result = "ok" => Cardinality(pp) = NumSectors)

C1_Witness ==
    /\ top = "write_sectors"
    /\ result = "ok"
    /\ image = OtherImage
    /\ nvm0 = DEFAULT_NVM_DATA
    /\ polls = MaxPolls
    /\ Cardinality(ProgramPulses) = NumSectors

(***************************************************************************)
(* C2: with a device that executes the opcodes and a transport that does   *)
(* not fail, unlock, write_sectors(image), lock, unlock, read_sectors      *)
(* returns exactly the image written, sector i of the result being         *)
(* image[i] (scen = 3: write_sectors, lock and unlock returned Ok in that  *)
(* order, with no other call in between, and read_sectors followed).       *)
(***************************************************************************)
C2_WriteLockUnlockRead ==
    (top = "read_sectors" /\ result = "ok" /\ scen = 3) =>
        /\ buf = written
        /\ \A i \in Sectors : buf[i] = written[i]

C2_Witness ==
    /\ top = "read_sectors"
    /\ result = "ok"
    /\ scen = 3
    /\ written = DEFAULT_NVM_DATA
    /\ buf = DEFAULT_NVM_DATA
    /\ nfail = 0

(***************************************************************************)
(* C3: in one unlocked session without transport failures, for every       *)
(* sector i and value d, write_sector(i, d) leaves every other sector as   *)
(* it was and a read_sector(i) that follows returns d.                     *)
(***************************************************************************)
C3_SectorRoundTrip ==
    nfail = 0 =>
        /\ (top = "write_sector" /\ result = "ok") =>
              \A j \in Sectors \ {idx} : dev.nvm[j] = nvm0[j]
        /\ (top = "read_sector" /\ result = "ok" /\ lastWrite # <<>>) =>
              (lastWrite[1] = idx => rbuf = lastWrite[2])

C3_Witness ==
    /\ nfail = 0
    /\ top = "read_sector"
    /\ result = "ok"
    /\ idx = 3
    /\ lastWrite = <<3, OtherImage[3]>>
    /\ rbuf = OtherImage[3]
    /\ polls = MaxPolls

(***************************************************************************)
(* C4: unlock performs exactly three register writes, in this order:       *)
(* password = 0x47, control register 0 = 0x00, control register 0 =        *)
(* Power|Enable.  It returns Ok with a session exactly when all three      *)
(* succeeded; the first failing write is the last transaction, the error   *)
(* is returned and there is no session.                                    *)
(***************************************************************************)
UnlockWrites ==
    << <<NvmPassword, DEFAULT_PASSWORD>>, <<NvmCtrl0, 0>>, <<NvmCtrl0, Power + Enable>> >>

C4_UnlockSequence ==
    top = "unlock" =>
        /\ Len(trace) <= 3
        /\ \A k \in TracePos :
              /\ trace[k].kind = "write"
              /\ <<trace[k].reg, trace[k].val>> = UnlockWrites[k]
              /\ (k < Len(trace) => trace[k].ok)
        /\ (result = "ok") = (Len(trace) = 3 /\ trace[3].ok)
        /\ (result = "err") = (trace # <<>> /\ ~trace[Len(trace)].ok)
        /\ (sess = "unlocked") = (result = "ok")
        /\ (result # "none") = (pc = "idle")

C4_Witness ==
    /\ top = "unlock"
    /\ result = "ok"
    /\ sess = "unlocked"
    /\ Len(trace) = 3
    /\ dev.password = DEFAULT_PASSWORD
    /\ dev.ctrl0 = Power + Enable

(***************************************************************************)
(* C5: lock performs exactly three register writes, in this order: control *)
(* register 0 = Enable only, control register 1 = 0x00, password = 0x00.   *)
(* After a successful lock the session no longer exists, the password      *)
(* register holds 0x00 and unlock can be called again.                     *)
(***************************************************************************)
LockWrites ==
    << <<NvmCtrl0, Enable>>, <<NvmCtrl1, 0>>, <<NvmPassword, 0>> >>

C5_LockSequence ==
    top = "lock" =>
        /\ Len(trace) <= 3
        /\ \A k \in TracePos :
              /\ trace[k].kind = "write"
              /\ <<trace[k].reg, trace[k].val>> = LockWrites[k]
              /\ (k < Len(trace) => trace[k].ok)
        /\ (result = "ok") = (Len(trace) = 3 /\ trace[3].ok)
        /\ (result = "ok" =>
              /\ sess = "none"
              /\ dev.password = 0
              /\ ENABLED CallUnlock)
        /\ (result = "none" => sess = "unlocked")

C5_Witness ==
    /\ top = "lock"
    /\ result = "ok"
    /\ sess = "none"
    /\ Len(trace) = 3
    /\ dev.password = 0
    /\ dev.ctrl0 = Enable

(***************************************************************************)
(* C6: a request pulse is a write of s | Power|Enable|Request to control   *)
(* register 0; after it, and after every read that still shows Request     *)
(* set, the next transaction is a read of control register 0; while the    *)
(* last transaction is the pulse or such a read the driver is still in the *)
(* loop and has returned nothing.  So every later step (the next opcode    *)
(* write, the buffer read) comes directly after a read with Request clear. *)
(***************************************************************************)
IsBusyPoll(t) == IsPoll(t) /\ RequestBit(t.val) = 1

C6_PulsePolledToCompletion ==
    LET n == Len(trace)
    IN  /\ \A k \in TracePos :
              LET t == trace[k]
              IN  /\ IsPulse(t) =>
                        \E s \in Sectors : t.val = s + Power + Enable + Request
                  /\ (k < n /\ (IsPulse(t) \/ IsBusyPoll(t))) =>
                        (trace[k + 1].kind = "read" /\ trace[k + 1].reg = NvmCtrl0)
        /\ (n > 0 /\ (IsPulse(trace[n]) \/ IsBusyPoll(trace[n]))) =>
              (pc = "rq_poll" /\ result = "none")
        /\ (pc \in {"er_op", "ws_op", "rs_ptr"}
            \/ (pc = "ws_buf" /\ n > 0)
            \/ (result = "ok" /\ top \in {"write_sectors", "write_sector"})) =>
              (n > 0 /\ IsClearPoll(trace[n]))
        /\ pc = "rs_rd" => (n > 1 /\ IsClearPoll(trace[n - 1]))

C6_Witness ==
    /\ pc = "rs_ptr"
    /\ Len(trace) >= 4
    /\ IsClearPoll(trace[Len(trace)])
    /\ IsBusyPoll(trace[Len(trace) - 1])
    /\ IsPulse(trace[Len(trace) - 2])

(***************************************************************************)
(* C7: with a device that never clears the Request bit and reads of        *)
(* control register 0 that succeed, issue_request never returns: a poll    *)
(* that succeeds leaves the driver polling with nothing returned, however  *)
(* many polls were made, and no call that issues a request returns Ok.     *)
(***************************************************************************)
C7_StuckNeverReturns ==
    /\ [](stuck => ~(result = "ok" /\ top \in {"read_sectors", "write_sectors"}))
    /\ [][(stuck /\ pc = "rq_poll" /\ nfail' = nfail)
            => (pc' = "rq_poll" /\ result' = "none" /\ top' = top)]_vars

C7_Witness ==
    /\ stuck
    /\ top = "write_sectors"
    /\ pc = "rq_poll"
    /\ polls = MaxPolls
    /\ result = "none"
    /\ ENABLED RequestPoll

(***************************************************************************)
(* C8: in unlock, read_sectors, write_sectors and lock the first transport *)
(* failure ends the call at once: the failed transaction is the last one   *)
(* of the call (no retry, nothing issued after it) and the call has        *)
(* returned the error; a call returns an error only that way.              *)
(***************************************************************************)
C8_FirstFailureEnds ==
    LET n == Len(trace)
    IN  /\ \A k \in TracePos :
              ~trace[k].ok => (k = n /\ pc = "idle" /\ result = "err")
        /\ result = "err" => (n > 0 /\ ~trace[n].ok /\ pc = "idle")

C8_Witness ==
    /\ top = "write_sectors"
    /\ result = "err"
    /\ pc = "idle"
    /\ Len(trace) > 20
    /\ trace[Len(trace)].kind = "read"
    /\ ~trace[Len(trace)].ok

(***************************************************************************)
(* C9: when write_sectors or read_sectors has failed, the driver has       *)
(* issued no lock write: the session still exists, the password register   *)
(* holds 0x47 and control register 0 has Power and Enable set; of a failed *)
(* write_sectors the sectors programmed so far hold their new contents and *)
(* the erased ones stay erased (nothing is rolled back); and within a      *)
(* session the device leaves the unlocked state only in a call of lock.    *)
(***************************************************************************)
DevUnlocked(d) ==
    /\ d.password = DEFAULT_PASSWORD
    /\ BitAnd(d.ctrl0, Power + Enable) = Power + Enable

\* the programming pulses polled to completion
ProgramsDone ==
    Cardinality({k \in ProgramPulses : PulseDoneAt(k, SkipPolls(k + 1))})

C9_FailureLeavesUnlocked ==
    /\ []((result = "err" /\ top \in {"write_sectors", "read_sectors"}) =>
            /\ sess = "unlocked"
            /\ DevUnlocked(dev)
            /\ \A k \in TracePos :
                  trace[k].kind = "write" =>
                      /\ trace[k].reg # NvmPassword
                      /\ (trace[k].reg = NvmCtrl0 =>
                            BitAnd(trace[k].val, Power + Enable) = Power + Enable)
            /\ (top = "write_sectors" /\ EraseDone) =>
                  LET done == ProgramsDone
                  IN  \A j \in Sectors :
                         /\ j < done => dev.nvm[j] = image[j]
                         /\ j = done => dev.nvm[j] \in {ZeroSector, image[j]}
                         /\ j > done => dev.nvm[j] = ZeroSector)
    /\ [][(sess = "unlocked" /\ DevUnlocked(dev) /\ ~DevUnlocked(dev'))
            => top' = "lock"]_vars

C9_Witness ==
    /\ top = "write_sectors"
    /\ result = "err"
    /\ sess = "unlocked"
    /\ DevUnlocked(dev)
    /\ image = OtherImage
    /\ nvm0 = DEFAULT_NVM_DATA
    /\ dev.nvm[0] = image[0]
    /\ dev.nvm[1] = image[1]
    /\ dev.nvm[2] = ZeroSector
    /\ dev.nvm[4] = ZeroSector

(***************************************************************************)
(* C10: while a session exists, every bus transaction is one of that       *)
(* session's own calls (read_sectors, write_sectors, lock): no second      *)
(* unlock and no status, PDO or voltage read through the handle is         *)
(* interleaved between the unlock writes and the lock writes.              *)
(***************************************************************************)
SessionCalls == {"read_sectors", "write_sectors", "read_sector", "write_sector", "lock"}

C10_SessionOwnsHandle ==
    /\ [](sess = "unlocked" => ~ENABLED CallStatus /\ ~ENABLED CallUnlock)
    /\ [][(sess = "unlocked" /\ Len(trace') = Len(trace) + 1)
            => top' \in SessionCalls]_vars

C10_Witness ==
    /\ sess = "unlocked"
    /\ top = "lock"
    /\ Len(trace) = 2
    /\ pc = "l_pw"

(***************************************************************************)
(* Power data objects: what the claims say about pdo.rs, under SpecPdo.    *)
(***************************************************************************)
RECURSIVE FieldFrom(_, _, _)
FieldFrom(w, i, lsb) ==
    IF i < lsb THEN 0 ELSE w[i] * 2^(i - lsb) + FieldFrom(w, i - 1, lsb)

\* the bits msb..lsb of a word, as a number
Field(w, msb, lsb) == FieldFrom(w, msb, lsb)

VariantOfTag(t) ==
    CASE t = 0 -> "Fixed" [] t = 1 -> "Variable" [] t = 2 -> "Battery"
      [] t = 3 -> "Augmented"

MutatorBit(op) ==
    CASE op = "dual_role_power" -> 29
      [] op = "higher_capability" -> 28
      [] op = "unconstrained_power" -> 27
      [] op = "usb_communications_capable" -> 26
      [] op = "dual_role_data" -> 25

\* C11: from_bits of any word returns Some, never None; the variant is the
\* one bits 31:30 name (0 Fixed, 1 Variable, 2 Battery, 3 Augmented), and
\* bits() of the result is the word given.
C11_FromBitsTotal ==
    pop = "from_bits" =>
        /\ pres = "Some"
        /\ pdo.variant = VariantOfTag(Field(pw, 31, 30))
        /\ Bits(pdo) = pw

C11_Witness ==
    /\ pop = "from_bits"
    /\ pres = "Some"
    /\ pdo.variant = "Augmented"
    /\ Field(pw, 31, 30) = 3
    /\ Field(pw, 29, 20) = 1023
    /\ Bits(pdo) = pw

\* C12: new_fixed(v, c) is a Fixed whose bits 19:10 are v & 0x3FF, whose
\* bits 9:0 are c & 0x3FF, whose tag is 0 and whose other bits are all
\* zero: a voltage or current above 0x3FF is cut, it does not spill.
C12_NewFixedLayout ==
    pop = "new_fixed" =>
        /\ pdo.variant = "Fixed"
        /\ Field(pdo.bits, 19, 10) = pvc[1] % 1024
        /\ Field(pdo.bits, 9, 0) = pvc[2] % 1024
        /\ \A i \in 20..31 : pdo.bits[i] = 0

C12_Witness ==
    /\ pop = "new_fixed"
    /\ pvc = <<65535, 1024>>
    /\ Field(pdo.bits, 19, 10) = 1023
    /\ Field(pdo.bits, 9, 0) = 0
    /\ Field(pdo.bits, 31, 20) = 0

\* C13: on a Variable, Battery or Augmented Pdo each of the five mutators,
\* after whatever calls came before it, leaves the variant and the word as
\* they were; so does every sequence of them.
C13_NonFixedUntouched ==
    (pop \in Mutators /\ pprev.variant # "Fixed") => pdo = pprev

C13_Witness ==
    /\ pprev.variant = "Battery"
    /\ pop = "higher_capability"
    /\ parg
    /\ pprev.bits[28] = 0
    /\ Field(pprev.bits, 9, 0) = 1023
    /\ Field(pprev.bits, 29, 10) = 0
    /\ pdo = pprev

\* C14: FastSwapSupport -> u32 gives the ordinals 0, 1, 2, 3 and converting
\* that back gives the value again; u32 -> FastSwapSupport looks at the two
\* low bits only, and converting its result to u32 gives x & 0x3.
C14_FastSwapInverse ==
    /\ fs.op = "into" =>
           /\ fs.n = CASE fs.e = "NotSupported" -> 0 [] fs.e = "DefaultUsb" -> 1
                       [] fs.e = "_1A5_5V" -> 2 [] fs.e = "_3A0_5V" -> 3
           /\ FastSwapFrom(U16ToWord(fs.n)) = fs.e
    /\ fs.op = "from" =>
           /\ fs.e = FastSwapFrom(WAnd(fs.x, U16ToWord(3)))
           /\ FastSwapInto(fs.e) = Field(fs.x, 1, 0)

C14_Witness ==
    /\ fs.op = "from"
    /\ fs.x = U16ToWord(4)
    /\ fs.e = "NotSupported"

\* C20: the mutators keep the variant and bits 31:30 of a Pdo made by
\* from_bits or new_fixed; on a Fixed each sets its own bit to its argument
\* (dual_role_power 29, higher_capability 28, unconstrained_power 27,
\* usb_communications_capable 26, dual_role_data 25) and no other bit; so
\* from_bits(p.bits()) gives the variant of p.
C20_MutatorsKeepTag ==
    (pop # "none") =>
        /\ pop \in Mutators =>
              /\ pdo.variant = pprev.variant
              /\ Field(pdo.bits, 31, 30) = Field(pprev.bits, 31, 30)
        /\ pdo.variant = VariantOfTag(Field(pdo.bits, 31, 30))
        /\ FromBits(Bits(pdo)) # <<>>
        /\ FromBits(Bits(pdo))[1].variant = pdo.variant
        /\ (pop \in Mutators /\ pprev.variant = "Fixed") =>
               pdo.bits = [pprev.bits EXCEPT ![MutatorBit(pop)] =
                                                 IF parg THEN 1 ELSE 0]

C20_Witness ==
    /\ pop = "dual_role_data"
    /\ parg
    /\ pdo.variant = "Fixed"
    /\ pprev.bits[25] = 0
    /\ pdo.bits[25] = 1
    /\ pdo.bits[29] = 1
    /\ Field(pdo.bits, 19, 10) = 1023
    /\ Field(pdo.bits, 9, 0) = 0
    /\ Field(pdo.bits, 24, 20) = 8

(***************************************************************************)
(* The exact sequences of erase_sectors, write_sector and read_sectors.     *)
(***************************************************************************)
\* a write of v to register r, done or failed
WriteAttempt(t, r, v) == t.kind = "write" /\ t.reg = r /\ t.val = v

\* a read of control register 0 that failed
FailedPoll(t) == t.kind = "read" /\ t.reg = NvmCtrl0 /\ ~t.ok

\* the value of a request pulse for sector s
PulseValue(s) == s + Power + Enable + Request

\* only the last transaction of a call can have failed, and it ends the call
OnlyLastFailed ==
    \A k \in TracePos : ~trace[k].ok => (k = Len(trace) /\ result = "err")

\* where the step after "opcode, pulse, polls" that starts at k would be
OpPulseEnd(k) == SkipPolls(k + 2)

\* from position k on the trace is, as far as it goes: control register 1
\* = op, request pulse for sector s, reads of control register 0 that show
\* Request set until one shows it clear (or fails)
OpPulseFrom(k, op, s) ==
    LET n == OpPulseEnd(k)
    IN  /\ k \in TracePos => WriteAttempt(trace[k], NvmCtrl1, op)
        /\ k + 1 \in TracePos => WriteAttempt(trace[k + 1], NvmCtrl0, PulseValue(s))
        /\ \A j \in (k + 2) .. (n - 2) : RequestBit(trace[j].val) = 1
        /\ n \in TracePos =>
              \/ FailedPoll(trace[n])
              \/ n > k + 2 /\ IsClearPoll(trace[n - 1])

\* the sequence that starts at k was completed and another step follows
WentOn(n) == n \in TracePos /\ ~FailedPoll(trace[n])

\* C15: erase_sectors issues exactly, in order: control register 1 =
\* LoadSer with all five erase flags, a request pulse for sector 0 polled to
\* completion, control register 1 = EraseSectors, a request pulse for
\* sector 0 polled to completion; the second opcode is written only after a
\* poll showed the first pulse complete, and nothing else is in between.
C15_EraseSequence ==
    top = "write_sectors" =>
        LET c == OpPulseEnd(1)
            e == OpPulseEnd(c)
        IN  /\ OnlyLastFailed
            /\ OpPulseFrom(1, LoadSer + EraseSector0 + EraseSector1 + EraseSector2
                                      + EraseSector3 + EraseSector4, 0)
            /\ WentOn(c) =>
                  /\ OpPulseFrom(c, EraseSectors, 0)
                  /\ IsClearPoll(trace[c - 1])
                  /\ WentOn(e) => trace[e].kind = "raw_write"
            /\ (pc = "ws_buf" /\ idx = 0) =>
                  /\ EraseDone
                  /\ c \in TracePos
                  /\ Len(trace) = e - 1

C15_Witness ==
    /\ top = "write_sectors"
    /\ pc = "ws_buf"
    /\ idx = 0
    /\ polls = MaxPolls
    /\ Len(trace) = 6 + MaxPolls
    /\ IsWrite(trace[1], NvmCtrl1, 250)
    /\ IsWrite(trace[2], NvmCtrl0, 208)
    /\ IsWrite(trace[Len(trace) - 2], NvmCtrl1, EraseSectors)
    /\ IsWrite(trace[Len(trace) - 1], NvmCtrl0, 208)
    /\ IsClearPoll(trace[Len(trace)])

\* C16: write_sector(i, data) issues exactly, in order: one burst write of
\* the buffer address followed by the 8 data bytes, control register 1 =
\* LoadPlr, a request pulse for sector 0 polled to completion, control
\* register 1 = WriteSector, a request pulse for sector i polled to
\* completion; so the data is in the buffer before LoadPlr, and the
\* WriteSector pulse is the only one that carries i.
C16_WriteSectorSequence ==
    top = "write_sector" =>
        LET p == OpPulseEnd(2)
            q == OpPulseEnd(p)
        IN  /\ OnlyLastFailed
            /\ 1 \in TracePos =>
                  /\ trace[1].kind = "raw_write"
                  /\ trace[1].bytes = <<RWBuffer>> \o data
                  /\ Len(trace[1].bytes) = 1 + SectorLen
            /\ OpPulseFrom(2, LoadPlr, 0)
            /\ WentOn(p) =>
                  /\ OpPulseFrom(p, WriteSector, idx)
                  /\ IsClearPoll(trace[p - 1])
                  /\ q \in TracePos => (FailedPoll(trace[q]) /\ q = Len(trace))
            /\ result = "ok" =>
                  /\ WentOn(p)
                  /\ q = Len(trace) + 1
                  /\ q > p + 2
                  /\ IsClearPoll(trace[Len(trace)])
                  /\ {k \in TracePos : IsPulse(trace[k])} = {3, p + 1}

C16_Witness ==
    /\ top = "write_sector"
    /\ result = "ok"
    /\ idx = 3
    /\ data = OtherImage[3]
    /\ polls = MaxPolls
    /\ IsWrite(trace[3], NvmCtrl0, 208)
    /\ IsWrite(trace[Len(trace) - 1], NvmCtrl0, 211)
    /\ IsWrite(trace[Len(trace) - 2], NvmCtrl1, WriteSector)

\* from position k on the trace is, as far as it goes, what read_sector
\* does for the sectors i, i+1, .. 4: control register 1 = ReadSector, a
\* request pulse for the sector polled to completion, a write of the buffer
\* address alone, a read of 8 bytes, which are kept as element i of buf
RECURSIVE ReadGroupsFrom(_, _)
ReadGroupsFrom(k, i) ==
    IF k \notin TracePos THEN TRUE
    ELSE IF i \notin Sectors THEN FALSE
    ELSE LET n == OpPulseEnd(k)
         IN  /\ OpPulseFrom(k, ReadSector, i)
             /\ WentOn(n) =>
                   /\ IsClearPoll(trace[n - 1])
                   /\ trace[n].kind = "raw_write"
                   /\ trace[n].bytes = <<RWBuffer>>
                   /\ n + 1 \in TracePos =>
                         /\ trace[n + 1].kind = "raw_read"
                         /\ trace[n + 1].ok =>
                               /\ Len(trace[n + 1].bytes) = SectorLen
                               /\ buf[i] = trace[n + 1].bytes
                   /\ ReadGroupsFrom(n + 2, i + 1)

\* C17: read_sectors reads the sectors 0, 1, 2, 3, 4 in ascending order,
\* each by: control register 1 = ReadSector, a request pulse with that
\* sector's index polled to completion, a write of the buffer address, a
\* read of 8 bytes; the bytes of sector i are element i of the result, and
\* the buffer is never read before a poll showed the pulse complete.
C17_ReadSequence ==
    top = "read_sectors" =>
        /\ OnlyLastFailed
        /\ ReadGroupsFrom(1, 0)
        /\ \A k \in TracePos :
              trace[k].kind = "raw_read" => (k > 2 /\ IsClearPoll(trace[k - 2]))
        /\ result = "ok" =>
              /\ Cardinality({k \in TracePos : trace[k].kind = "raw_read"}) = NumSectors
              /\ trace[Len(trace)].kind = "raw_read"
              /\ buf[NumSectors - 1] = trace[Len(trace)].bytes

C17_Witness ==
    /\ top = "read_sectors"
    /\ result = "ok"
    /\ polls = MaxPolls
    /\ nfail = 0
    /\ Len(trace) = 5 * NumSectors + MaxPolls
    /\ buf = DEFAULT_NVM_DATA
    /\ IsWrite(trace[Len(trace) - 3], NvmCtrl0, 212)

\* the Power and Enable bits of a byte are both set
PowerEnableSet(v) == (v \div Power) % 2 = 1 /\ (v \div Enable) % 2 = 1

\* a write to control register 0, done or failed
IsCtrl0Write(t) == t.kind = "write" /\ t.reg = NvmCtrl0

\* a write that addresses the password register
IsPasswordWrite(t) ==
    \/ t.kind = "write" /\ t.reg = NvmPassword
    \/ t.kind = "raw_write" /\ t.bytes # <<>> /\ t.bytes[1] = NvmPassword

\* a session exists and lock has not been started on it
InSession == sess = "unlocked" /\ top # "lock"

\* C18: in every state reached by unlock, read_sectors, write_sectors and
\* lock in any order, every write to control register 0 with Request set
\* has a sector index in 0..4 and Power and Enable set; and between a
\* successful unlock and the start of lock no write to control register 0
\* drops Power or Enable and nothing is written to the password register
\* (so the device stays powered, enabled and unlocked).
C18_RequestsWellFormed ==
    /\ \A k \in TracePos :
          (IsCtrl0Write(trace[k]) /\ RequestBit(trace[k].val) = 1) =>
              /\ trace[k].val % (SectorMask + 1) \in Sectors
              /\ PowerEnableSet(trace[k].val)
    /\ InSession =>
          /\ dev.password = DEFAULT_PASSWORD
          /\ PowerEnableSet(dev.ctrl0)
          /\ top # "unlock" =>
                \A k \in TracePos :
                    /\ IsCtrl0Write(trace[k]) => PowerEnableSet(trace[k].val)
                    /\ ~IsPasswordWrite(trace[k])

C18_Witness ==
    /\ InSession
    /\ top = "write_sectors"
    /\ result = "ok"
    /\ dev.password = DEFAULT_PASSWORD
    /\ Cardinality({k \in TracePos : IsCtrl0Write(trace[k])}) = 2 + 2 * NumSectors
    /\ \E k \in TracePos : IsWrite(trace[k], NvmCtrl0, 212)

\* the request pulses of the call so far
PulseCount == Cardinality({k \in TracePos : IsPulse(trace[k])})

\* C19: with a transport that does not fail and a device that clears
\* Request after finitely many polls, read_sectors and write_sectors always
\* return, with Ok: read_sectors after exactly 5 request pulses,
\* write_sectors after exactly 12 (2 to erase, 2 for each of the 5 sectors).
C19_Terminates ==
    /\ (top = "read_sectors" /\ result = "none")
           ~> (top = "read_sectors" /\ result = "ok" /\ PulseCount = 5)
    /\ (top = "write_sectors" /\ result = "none")
           ~> (top = "write_sectors" /\ result = "ok" /\ PulseCount = 12)
    /\ [](top \in {"read_sectors", "write_sectors"} => result # "err")

C19_Witness ==
    /\ top = "write_sectors"
    /\ result = "ok"
    /\ pc = "idle"
    /\ PulseCount = 12
    /\ polls = MaxPolls
    /\ ~stuck
    /\ nfail = MaxFail
    /\ dev.nvm = OtherImage

=============================================================================
